---------------------------- MODULE Spec2Model ----------------------------
(***************************************************************************)
(* GET /api/feature-flags?org=<organizationId>                             *)
(* (src/src/app/api/feature-flags/route.ts, lines 115-328).                *)
(*                                                                         *)
(* The handler validates the `org` search parameter, runs the environment  *)
(* Flag Fetcher and then the organization Flag Fetcher (each acquiring its *)
(* own M2M token), checks the two results for an "error" property,         *)
(* computes the overrides and answers with JSON.                           *)
(***************************************************************************)
EXTENDS Integers, Sequences, FiniteSets, TLC

VARIABLES
    env,                \* process.env: the three KINDE_* variables
    pc,                 \* per request: where the handler stands
    request,            \* per request: the inbound `org` search parameter
    orgId,              \* per request: const orgId (line 288)
    fetching,           \* per request: the Flag Fetcher now running
    environmentFlags,   \* per request: const environmentFlags (line 298)
    organizationFlags,  \* per request: const organizationFlags (line 299)
    calls,              \* per request: upstream calls issued, with their answers
    response,           \* per request: the NextResponse returned
    overridesCalls,     \* per request: invocations of computeOverrides
    returned,           \* per request and fetcher: which return statement ran
    calc                \* harness of the Override Calculator: inputs and output

vars == <<env, pc, request, orgId, fetching, environmentFlags,
          organizationFlags, calls, response, overridesCalls, returned, calc>>

handlerVars == <<env, pc, request, orgId, fetching, environmentFlags,
                 organizationFlags, calls, response, overridesCalls, returned>>

---------------------------------------------------------------------------
(* Bounds of the model *)

\* longest raw `org` search parameter, in characters
MaxOrgLen == 2
\* number of flag codes the Override Calculator harness draws its maps from
MaxFlags == 2
\* number of requests in flight together in SpecConcurrent
NumRequests == 2

---------------------------------------------------------------------------
(* JavaScript values: a type tag and the text the value prints as.         *)

Undefined == [t |-> "undefined", v |-> "undefined"]
JsNull    == [t |-> "null", v |-> "null"]
Str(s)    == [t |-> "string", v |-> s]
JsTrue    == [t |-> "boolean", v |-> "true"]
JsFalse   == [t |-> "boolean", v |-> "false"]
Num(s)    == [t |-> "number", v |-> s]

\* !!x
Truthy(x) ==
    CASE x.t = "string"  -> x.v # ""
      [] x.t = "boolean" -> x.v = "true"
      [] x.t = "number"  -> x.v \notin {"0", "NaN"}
      [] OTHER           -> FALSE

\* x ?? y
Nullish(x) == x.t \in {"undefined", "null"}

\* a !== b : different type, or same type and different value
StrictNotEqual(a, b) == a.t # b.t \/ a.v # b.v

\* a != b : after the coercions of the abstract equality comparison
\* (null == undefined; boolean -> number; numeric string -> number)
ToNumberText(x) ==
    CASE x.t = "boolean" -> (IF x.v = "true" THEN "1" ELSE "0")
      [] x.t = "string"  -> (IF x.v \in {"0", "1"} THEN x.v ELSE "NaN")
      [] OTHER           -> x.v
LooseNotEqual(a, b) ==
    IF a.t = b.t THEN a.v # b.v
    ELSE IF Nullish(a) \/ Nullish(b) THEN ~(Nullish(a) /\ Nullish(b))
    ELSE ToNumberText(a) = "NaN" \/ ToNumberText(a) # ToNumberText(b)

\* `${x}`
ToText(x) == x.v

\* an object is a function from its own keys; obj[key] of a missing key
EmptyObject == [k \in {} |-> Undefined]
Get(obj, key) == IF key \in DOMAIN obj THEN obj[key] ELSE Undefined
\* key in obj
HasKey(obj, key) == key \in DOMAIN obj

\* all objects with keys among `codes` and values among `values`
ObjectsOver(codes, values) == UNION {[S -> values] : S \in SUBSET codes}

---------------------------------------------------------------------------
(* Override Calculator *)

\* variant: != in place of !== (line 153)
computeOverrides_LooseInequality(envFlags, orgFlags) ==
    [key \in DOMAIN envFlags |->
        LooseNotEqual(Get(envFlags, key), Get(orgFlags, key))]

computeOverrides(envFlags, orgFlags) ==
    [key \in DOMAIN envFlags |->
        StrictNotEqual(Get(envFlags, key), Get(orgFlags, key))]

---------------------------------------------------------------------------
(* Request parsing *)

WhiteSpace == {" "}
Chars == {" ", "a"}

\* the raw values searchParams.get("org") can give: null, or a string
RECURSIVE StringsUpTo(_)
StringsUpTo(n) ==
    IF n = 0 THEN {<<>>}
    ELSE LET shorter == StringsUpTo(n - 1)
         IN  shorter \cup {Append(s, c) : s \in shorter, c \in Chars}

NoParam == [present |-> FALSE, text |-> <<>>]
Param(s) == [present |-> TRUE, text |-> s]
OrgParams == {NoParam} \cup {Param(s) : s \in StringsUpTo(MaxOrgLen)}

\* String.prototype.trim
RECURSIVE TrimStart(_)
TrimStart(s) ==
    IF s # <<>> /\ Head(s) \in WhiteSpace THEN TrimStart(Tail(s)) ELSE s
RECURSIVE TrimEnd(_)
TrimEnd(s) ==
    IF s # <<>> /\ s[Len(s)] \in WhiteSpace
    THEN TrimEnd(SubSeq(s, 1, Len(s) - 1)) ELSE s
\* variant: searchParams.get("org") used untrimmed
Trim_None(s) == s
Trim(s) == TrimEnd(TrimStart(s))

\* searchParams.get("org")?.trim()
UndefinedOrgId == [defined |-> FALSE, text |-> <<>>]
ParseOrgId(param) ==
    IF param.present THEN [defined |-> TRUE, text |-> Trim(param.text)]
    ELSE UndefinedOrgId

\* !orgId
OrgIdMissing(id) == ~id.defined \/ id.text = <<>>

---------------------------------------------------------------------------
(* Configuration: process.env *)

IssuerUrl == "https://tenant.kinde.com"
EnvValues(set) == {Undefined, Str("")} \cup {Str(set)}
Envs ==
    [KINDE_ISSUER_URL        : EnvValues(IssuerUrl),
     KINDE_M2M_CLIENT_ID     : EnvValues("client_id"),
     KINDE_M2M_CLIENT_SECRET : EnvValues("client_secret")]
CompleteEnv ==
    [KINDE_ISSUER_URL        |-> Str(IssuerUrl),
     KINDE_M2M_CLIENT_ID     |-> Str("client_id"),
     KINDE_M2M_CLIENT_SECRET |-> Str("client_secret")]

\* !issuerUrl || !m2mClientId || !m2mClientSecret
\* variant: only the issuer URL is required
ConfigMissing_IssuerOnly(e) == ~Truthy(e.KINDE_ISSUER_URL)
ConfigMissing(e) ==
    \/ ~Truthy(e.KINDE_ISSUER_URL)
    \/ ~Truthy(e.KINDE_M2M_CLIENT_ID)
    \/ ~Truthy(e.KINDE_M2M_CLIENT_SECRET)

---------------------------------------------------------------------------
(* Upstream requests *)

\* `${issuer}/oauth2/token`, `${issuer}/api/v1/<resource>/feature_flags`,
\* `${issuer}/api/v1/organizations/${organizationId}/feature_flags`
Url(origin, resource, organization) ==
    [origin |-> origin, resource |-> resource, organization |-> organization]

TokenRequest(e) ==
    [method        |-> "POST",
     url           |-> Url(ToText(e.KINDE_ISSUER_URL), "oauth2/token", <<>>),
     authorization |-> "",
     body          |-> [client_id     |-> ToText(e.KINDE_M2M_CLIENT_ID),
                        client_secret |-> ToText(e.KINDE_M2M_CLIENT_SECRET),
                        grant_type    |-> "client_credentials",
                        audience      |-> ToText(e.KINDE_ISSUER_URL) \o "/api"]]

NoBody == [client_id |-> "", client_secret |-> "", grant_type |-> "",
           audience |-> ""]

EnvironmentFlagsUrl(e) ==
    Url(ToText(e.KINDE_ISSUER_URL), "api/v1/environment/feature_flags", <<>>)

OrganizationFlagsUrl(e, organizationId) ==
    Url(ToText(e.KINDE_ISSUER_URL), "api/v1/organizations/feature_flags",
        organizationId)

FlagsRequest(url, token) ==
    [method        |-> "GET",
     url           |-> url,
     authorization |-> "Bearer " \o token,
     body          |-> NoBody]

---------------------------------------------------------------------------
(* Upstream responses *)

\* a fetch() that rejects, and one that resolves with a status and a body
TokenBody(parses, token, error) ==
    [parses |-> parses, access_token |-> token, error |-> error]
Rejected == [kind |-> "rejected", status |-> 0]
Pending  == [kind |-> "pending", status |-> 0]
Resolved(status, body) == [kind |-> "resolved", status |-> status, body |-> body]

\* response.ok
Ok(resp) == resp.status >= 200 /\ resp.status <= 299

TokenBodies ==
    {TokenBody(FALSE, Undefined, Undefined),
     TokenBody(TRUE, Undefined, Undefined),
     TokenBody(TRUE, Str(""), Undefined),
     TokenBody(TRUE, Str("tok1"), Undefined),
     TokenBody(TRUE, Str("tok2"), Undefined),
     TokenBody(TRUE, Undefined, Str("invalid_client")),
     TokenBody(TRUE, Undefined, JsTrue)}
TokenResponses ==
    {Rejected} \cup {Resolved(st, b) : st \in {200, 401}, b \in TokenBodies}

HandlerFlagCodes == {"dark_mode", "error"}
KindeFlag(value) == [value |-> value]
FeatureFlagsFields ==
    {Undefined, ("dark_mode" :> JsNull)} \cup
    ObjectsOver(HandlerFlagCodes, {KindeFlag(JsTrue), KindeFlag(JsFalse)})
FlagsBody(parses, flags, error) ==
    [parses |-> parses, feature_flags |-> flags, error |-> error]
FlagsBodies ==
    {FlagsBody(FALSE, Undefined, Undefined)} \cup
    {FlagsBody(TRUE, f, e) :
        f \in FeatureFlagsFields,
        e \in {Undefined, Str(""), Str("flags_unavailable")}}
\* the bodies tried with a non-2xx status: with and without flags
ErrorStatusBodies ==
    {b \in FlagsBodies :
        b.feature_flags \in {Undefined, ("dark_mode" :> KindeFlag(JsTrue))}}
FlagsResponses ==
    {Rejected} \cup {Resolved(200, b) : b \in FlagsBodies}
               \cup {Resolved(500, b) : b \in ErrorStatusBodies}

---------------------------------------------------------------------------
(* Messages *)

MissingEnvMessage  == "Missing Kinde M2M environment variables"
NetworkMessage     == "fetch failed"
SyntaxErrorMessage == "Unexpected token < in JSON at position 0"
TypeErrorMessage   == "Cannot read properties of null (reading 'value')"
MissingOrgMessage  == "Missing required search param: org"

---------------------------------------------------------------------------
(* Token Provider: what getAuthToken does with the token endpoint's answer *)

Threw(message) == [threw |-> TRUE, message |-> message, value |-> ""]
Returned(value) == [threw |-> FALSE, message |-> "", value |-> value]

\* variant: data.access_token returned without the checks of lines 193-202
getAuthToken_Unchecked(resp) ==
    IF resp.kind = "rejected" THEN Threw(NetworkMessage)
    ELSE IF ~resp.body.parses THEN Threw(SyntaxErrorMessage)
    ELSE Returned(ToText(resp.body.access_token))

getAuthToken(resp) ==
    IF resp.kind = "rejected" THEN Threw(NetworkMessage)
    ELSE IF ~Ok(resp) THEN
        LET error == IF resp.body.parses THEN resp.body.error ELSE Undefined
            message == IF error.t = "string" THEN error.v
                       ELSE "Token request failed"
        IN  Threw("Kinde M2M: " \o message)
    ELSE IF ~resp.body.parses THEN Threw(SyntaxErrorMessage)
    ELSE IF ~Truthy(resp.body.access_token)
         THEN Threw("Kinde M2M: No access_token in response")
    ELSE Returned(ToText(resp.body.access_token))

---------------------------------------------------------------------------
(* Flag Fetcher: what it returns for the flags endpoint's answer *)

\* { error: message }
Failure(message) == ("error" :> message)

FlatMap(flags) == [key \in DOMAIN flags |-> flags[key].value]

\* the return statement taken ("failure": return { error }, "flags": return
\* the flat map) and the object returned
Outcome(how, result) == [how |-> how, result |-> result]

\* variant: "error" in data in place of data.error (lines 228, 265)
FlagsOutcome_ErrorKeyPresent(resp) ==
    IF resp.kind = "rejected"
    THEN Outcome("failure", Failure(Str(NetworkMessage)))
    ELSE IF ~resp.body.parses
    THEN Outcome("failure", Failure(Str(SyntaxErrorMessage)))
    ELSE LET data == resp.body IN
    IF ~Ok(resp) \/ data.error # Undefined THEN
        Outcome("failure",
                Failure(IF Nullish(data.error)
                        THEN Str("HTTP " \o ToString(resp.status))
                        ELSE data.error))
    ELSE LET flags == IF data.feature_flags = Undefined THEN EmptyObject
                      ELSE data.feature_flags IN
    IF \E key \in DOMAIN flags : flags[key] = JsNull
    THEN Outcome("failure", Failure(Str(TypeErrorMessage)))
    ELSE Outcome("flags", FlatMap(flags))

FlagsOutcome(resp) ==
    IF resp.kind = "rejected"
    THEN Outcome("failure", Failure(Str(NetworkMessage)))
    ELSE IF ~resp.body.parses
    THEN Outcome("failure", Failure(Str(SyntaxErrorMessage)))
    ELSE LET data == resp.body IN
    IF ~Ok(resp) \/ Truthy(data.error) THEN
        Outcome("failure",
                Failure(IF Nullish(data.error)
                        THEN Str("HTTP " \o ToString(resp.status))
                        ELSE data.error))
    ELSE LET flags == IF data.feature_flags = Undefined THEN EmptyObject
                      ELSE data.feature_flags IN
    IF \E key \in DOMAIN flags : flags[key] = JsNull
    THEN Outcome("failure", Failure(Str(TypeErrorMessage)))
    ELSE Outcome("flags", FlatMap(flags))

---------------------------------------------------------------------------
(* Request Handler: the response chosen from the two fetch results *)

ErrorResponse(status, message) == [status |-> status, body |-> [error |-> message]]
NoResponse == [status |-> 0, body |-> [error |-> ""]]

\* variant: the error responses without { status: 502 }
GETResponse_DefaultStatus(id, envFlags, orgFlags) ==
    IF HasKey(envFlags, "error") THEN
        ErrorResponse(200, "Environment flags: " \o ToText(envFlags["error"]))
    ELSE IF HasKey(orgFlags, "error") THEN
        ErrorResponse(200, "Organization flags: " \o ToText(orgFlags["error"]))
    ELSE [status |-> 200,
          body   |-> [orgId             |-> id,
                      environmentFlags  |-> envFlags,
                      organizationFlags |-> orgFlags,
                      overrides         |-> computeOverrides(envFlags, orgFlags)]]

GETResponse(id, envFlags, orgFlags) ==
    IF HasKey(envFlags, "error") THEN
        ErrorResponse(502, "Environment flags: " \o ToText(envFlags["error"]))
    ELSE IF HasKey(orgFlags, "error") THEN
        ErrorResponse(502, "Organization flags: " \o ToText(orgFlags["error"]))
    ELSE [status |-> 200,
          body   |-> [orgId             |-> id,
                      environmentFlags  |-> envFlags,
                      organizationFlags |-> orgFlags,
                      overrides         |-> computeOverrides(envFlags, orgFlags)]]

---------------------------------------------------------------------------
(* The handler as a state machine, one instance per request *)

Requests == 1 .. NumRequests

Scopes == {"environment", "organization"}

\* a result variable before its fetcher has returned
Unset == ("<unset>" :> Undefined)

Call(scope, step, req) ==
    [scope |-> scope, step |-> step, req |-> req, resp |-> Pending]

\* the last call of request r, answered with resp
Answered(r, resp) ==
    [calls[r] EXCEPT ![Len(calls[r])].resp = resp]

IdleCalc ==
    [envFlags |-> EmptyObject, orgFlags |-> EmptyObject, done |-> FALSE,
     overrides |-> EmptyObject]

InitRequests ==
    /\ pc = [r \in Requests |-> "idle"]
    /\ request = [r \in Requests |-> NoParam]
    /\ orgId = [r \in Requests |-> UndefinedOrgId]
    /\ fetching = [r \in Requests |-> "none"]
    /\ environmentFlags = [r \in Requests |-> Unset]
    /\ organizationFlags = [r \in Requests |-> Unset]
    /\ calls = [r \in Requests |-> <<>>]
    /\ response = [r \in Requests |-> NoResponse]
    /\ overridesCalls = [r \in Requests |-> 0]
    /\ returned = [r \in Requests |-> [s \in Scopes |-> "no"]]

Init ==
    /\ env \in Envs
    /\ InitRequests
    /\ calc = IdleCalc

\* lines 286-295: the request arrives, `org` is read and validated
Validate(r, params) ==
    /\ pc[r] = "idle"
    /\ \E param \in params :
        LET id == ParseOrgId(param) IN
        /\ request' = [request EXCEPT ![r] = param]
        /\ orgId' = [orgId EXCEPT ![r] = id]
        /\ IF OrgIdMissing(id)
           THEN /\ response' = [response EXCEPT ![r] =
                                    ErrorResponse(400, MissingOrgMessage)]
                /\ pc' = [pc EXCEPT ![r] = "done"]
                /\ UNCHANGED fetching
           ELSE /\ pc' = [pc EXCEPT ![r] = "auth"]
                /\ fetching' = [fetching EXCEPT ![r] = "environment"]
                /\ UNCHANGED response
    /\ UNCHANGED <<env, environmentFlags, organizationFlags, calls,
                   overridesCalls, returned, calc>>

\* lines 298-299: the running fetcher returns `result` to the handler, which
\* awaits the environment fetcher and then the organization fetcher
\* variant: the organization fetcher is skipped once the environment's failed
FetcherReturn_SkipOrganizationOnFailure(r, how, result) ==
    /\ returned' = [returned EXCEPT ![r][fetching[r]] = how]
    /\ IF fetching[r] = "environment"
       THEN /\ environmentFlags' = [environmentFlags EXCEPT ![r] = result]
            /\ IF how = "failure"
               THEN /\ fetching' = [fetching EXCEPT ![r] = "none"]
                    /\ pc' = [pc EXCEPT ![r] = "check"]
               ELSE /\ fetching' = [fetching EXCEPT ![r] = "organization"]
                    /\ pc' = [pc EXCEPT ![r] = "auth"]
            /\ UNCHANGED organizationFlags
       ELSE /\ organizationFlags' = [organizationFlags EXCEPT ![r] = result]
            /\ fetching' = [fetching EXCEPT ![r] = "none"]
            /\ pc' = [pc EXCEPT ![r] = "check"]
            /\ UNCHANGED environmentFlags

\* variant: the results kept in module-level variables shared by all requests
FetcherReturn_ModuleLevelResult(r, how, result) ==
    /\ returned' = [returned EXCEPT ![r][fetching[r]] = how]
    /\ IF fetching[r] = "environment"
       THEN /\ environmentFlags' = [q \in Requests |-> result]
            /\ fetching' = [fetching EXCEPT ![r] = "organization"]
            /\ pc' = [pc EXCEPT ![r] = "auth"]
            /\ UNCHANGED organizationFlags
       ELSE /\ organizationFlags' = [q \in Requests |-> result]
            /\ fetching' = [fetching EXCEPT ![r] = "none"]
            /\ pc' = [pc EXCEPT ![r] = "check"]
            /\ UNCHANGED environmentFlags

FetcherReturn(r, how, result) ==
    /\ returned' = [returned EXCEPT ![r][fetching[r]] = how]
    /\ IF fetching[r] = "environment"
       THEN /\ environmentFlags' = [environmentFlags EXCEPT ![r] = result]
            /\ fetching' = [fetching EXCEPT ![r] = "organization"]
            /\ pc' = [pc EXCEPT ![r] = "auth"]
            /\ UNCHANGED organizationFlags
       ELSE /\ organizationFlags' = [organizationFlags EXCEPT ![r] = result]
            /\ fetching' = [fetching EXCEPT ![r] = "none"]
            /\ pc' = [pc EXCEPT ![r] = "check"]
            /\ UNCHANGED environmentFlags

\* lines 166-191 under the fetcher's try (215, 253): the configuration check
\* throws into the fetcher's catch, or the token POST is issued
RequestToken(r) ==
    /\ pc[r] = "auth"
    /\ IF ConfigMissing(env)
       THEN /\ FetcherReturn(r, "failure", Failure(Str(MissingEnvMessage)))
            /\ UNCHANGED calls
       ELSE /\ calls' = [calls EXCEPT ![r] =
                Append(@, Call(fetching[r], "token", TokenRequest(env)))]
            /\ pc' = [pc EXCEPT ![r] = "token"]
            /\ UNCHANGED <<fetching, environmentFlags, organizationFlags,
                           returned>>
    /\ UNCHANGED <<env, request, orgId, response, overridesCalls, calc>>

\* the flags GET of the running fetcher (lines 217-225, 254-262)
FlagsUrl(r) ==
    IF fetching[r] = "environment" THEN EnvironmentFlagsUrl(env)
    ELSE OrganizationFlagsUrl(env, orgId[r].text)

\* lines 193-203 then 217-225 / 254-262: the token endpoint answers; a throw
\* lands in the fetcher's catch, a token goes into the flags GET
ReceiveToken(r, tokenResponses) ==
    /\ pc[r] = "token"
    /\ \E resp \in tokenResponses :
        LET token == getAuthToken(resp) IN
        IF token.threw
        THEN /\ calls' = [calls EXCEPT ![r] = Answered(r, resp)]
             /\ FetcherReturn(r, "failure", Failure(Str(token.message)))
        ELSE /\ calls' = [calls EXCEPT ![r] =
                 Append(Answered(r, resp),
                        Call(fetching[r], "flags",
                             FlagsRequest(FlagsUrl(r), token.value)))]
             /\ pc' = [pc EXCEPT ![r] = "flags"]
             /\ UNCHANGED <<fetching, environmentFlags, organizationFlags,
                            returned>>
    /\ UNCHANGED <<env, request, orgId, response, overridesCalls, calc>>

\* lines 227-239 / 264-276: the flags endpoint answers and the fetcher returns
ReceiveFlags(r, flagsResponses) ==
    /\ pc[r] = "flags"
    /\ \E resp \in flagsResponses :
        /\ calls' = [calls EXCEPT ![r] = Answered(r, resp)]
        /\ LET out == FlagsOutcome(resp)
           IN  FetcherReturn(r, out.how, out.result)
    /\ UNCHANGED <<env, request, orgId, response, overridesCalls, calc>>

\* lines 301-321: the failure checks, computeOverrides and the response
Respond(r) ==
    /\ pc[r] = "check"
    /\ LET res == GETResponse(orgId[r].text, environmentFlags[r],
                              organizationFlags[r]) IN
        /\ response' = [response EXCEPT ![r] = res]
        /\ overridesCalls' = [overridesCalls EXCEPT ![r] =
                                 IF res.status = 200 THEN @ + 1 ELSE @]
    /\ pc' = [pc EXCEPT ![r] = "done"]
    /\ UNCHANGED <<env, request, orgId, fetching, environmentFlags,
                   organizationFlags, calls, returned, calc>>

\* one request (the first of Requests), every input the handler can meet
Next ==
    \/ Validate(1, OrgParams)
    \/ RequestToken(1)
    \/ ReceiveToken(1, TokenResponses)
    \/ ReceiveFlags(1, FlagsResponses)
    \/ Respond(1)

Spec == Init /\ [][Next]_vars

---------------------------------------------------------------------------
(* Several requests in flight together, their steps interleaved at the     *)
(* awaits; a lean set of inputs, two organizations                         *)

ConcurrentParams == {Param(<<" ", "a">>), Param(<<"a", "a">>)}
ConcurrentTokenResponses ==
    {Resolved(200, TokenBody(TRUE, Str("tok1"), Undefined)),
     Resolved(401, TokenBody(TRUE, Undefined, Str("invalid_client")))}
ConcurrentFlagsResponses ==
    {Resolved(200, FlagsBody(TRUE, ("dark_mode" :> KindeFlag(JsTrue)), Undefined)),
     Resolved(500, FlagsBody(TRUE, Undefined, Undefined))}

InitConcurrent ==
    /\ env = CompleteEnv
    /\ InitRequests
    /\ calc = IdleCalc

NextConcurrent ==
    \E r \in Requests :
        \/ Validate(r, ConcurrentParams)
        \/ RequestToken(r)
        \/ ReceiveToken(r, ConcurrentTokenResponses)
        \/ ReceiveFlags(r, ConcurrentFlagsResponses)
        \/ Respond(r)

SpecConcurrent == InitConcurrent /\ [][NextConcurrent]_vars

---------------------------------------------------------------------------
(* The Override Calculator on its own: every pair of flag maps             *)

CodeNames == <<"dark_mode", "beta_api", "error", "new_ui">>
FlagCodes == {CodeNames[i] : i \in 1 .. MaxFlags}
FlagValues == {JsTrue, JsFalse, Str("true"), Str("1"), Num("1")}
FlagMaps == ObjectsOver(FlagCodes, FlagValues)

InitOverrides ==
    /\ env = CompleteEnv
    /\ InitRequests
    /\ calc \in [envFlags : FlagMaps, orgFlags : FlagMaps, done : {FALSE},
                 overrides : {EmptyObject}]

Calculate ==
    /\ ~calc.done
    /\ calc' = [calc EXCEPT !.done = TRUE,
                            !.overrides = computeOverrides(calc.envFlags,
                                                           calc.orgFlags)]
    /\ UNCHANGED handlerVars

SpecOverrides == InitOverrides /\ [][Calculate]_vars

---------------------------------------------------------------------------
(* Reading a request's record of upstream calls *)

\* the positions in calls[r] of the calls of one fetcher and one step
CallsOf(r, scope, step) ==
    {i \in DOMAIN calls[r] :
        calls[r][i].scope = scope /\ calls[r][i].step = step}

\* the `org` parameter is absent, empty or only whitespace
Blank(param) ==
    ~param.present \/ \A i \in DOMAIN param.text : param.text[i] \in WhiteSpace

\* the result variable the handler holds for a fetcher
ResultOf(r, scope) ==
    IF scope = "environment" THEN environmentFlags[r] ELSE organizationFlags[r]

\* the request went past validation
Accepted(r) == pc[r] # "idle" /\ ~Blank(request[r])

---------------------------------------------------------------------------
(* C1 *)

\* C1: computeOverrides(E, O) has exactly the keys of E; its value at k is
\* true when k is missing from O, and otherwise true exactly when E[k] and
\* O[k] differ in type or in value; keys only in O never appear and an empty
\* E gives the empty map.
C1_OverridesExact ==
    calc.done =>
        LET E == calc.envFlags
            O == calc.orgFlags
            R == calc.overrides
        IN  /\ DOMAIN R = DOMAIN E
            /\ \A k \in DOMAIN E :
                R[k] = (IF k \in DOMAIN O THEN E[k] # O[k] ELSE TRUE)
            /\ \A k \in DOMAIN O \ DOMAIN E : k \notin DOMAIN R
            /\ (E = EmptyObject => R = EmptyObject)

C1_Witness ==
    /\ calc.done
    /\ calc.envFlags = ("dark_mode" :> Num("1"))
    /\ calc.orgFlags = ("dark_mode" :> Str("1")) @@ ("beta_api" :> JsTrue)
    /\ calc.overrides = ("dark_mode" :> TRUE)

---------------------------------------------------------------------------
(* C2 *)

\* C2: a request whose `org` parameter is absent, empty or only whitespace is
\* answered 400 {error: "Missing required search param: org"} at once, and no
\* token request and no flags request is ever issued for it.
C2_BlankOrgIs400 ==
    \A r \in Requests :
        (pc[r] # "idle" /\ Blank(request[r])) =>
            /\ pc[r] = "done"
            /\ response[r] =
                 [status |-> 400,
                  body |-> [error |-> "Missing required search param: org"]]
            /\ calls[r] = <<>>
            /\ returned[r] = [s \in Scopes |-> "no"]

C2_Witness ==
    /\ pc[1] = "done"
    /\ request[1] = Param(<<" ", " ">>)
    /\ response[1].status = 400

---------------------------------------------------------------------------
(* C3 *)

\* C3: once an accepted request is answered: if the environment fetcher
\* returned a failure the answer is 502 "Environment flags: <its message>"
\* (also when the organization fetcher failed too); otherwise, if the
\* organization fetcher returned a failure, the answer is 502
\* "Organization flags: <its message>". In both cases computeOverrides was
\* not invoked and the answer is not 200.
C3_FailureIs502 ==
    \A r \in Requests :
        (pc[r] = "done" /\ Accepted(r)) =>
            /\ returned[r]["environment"] = "failure" =>
                /\ response[r].status = 502
                /\ response[r].body =
                     [error |-> "Environment flags: "
                                  \o environmentFlags[r]["error"].v]
                /\ overridesCalls[r] = 0
            /\ (returned[r]["environment"] # "failure"
                    /\ returned[r]["organization"] = "failure") =>
                /\ response[r].status = 502
                /\ response[r].body =
                     [error |-> "Organization flags: "
                                  \o organizationFlags[r]["error"].v]
                /\ overridesCalls[r] = 0

---------------------------------------------------------------------------
(* C4 *)

\* a flags answer that is a success: 2xx, a body that parses, no `error`
\* field, and feature_flags missing or a map of {value} entries
SuccessfulFlags(resp) ==
    /\ resp.kind = "resolved"
    /\ Ok(resp)
    /\ resp.body.parses
    /\ resp.body.error = Undefined
    /\ resp.body.feature_flags # Undefined =>
         \A k \in DOMAIN resp.body.feature_flags :
            resp.body.feature_flags[k] # JsNull

\* the flag map such an answer carries
YieldedMap(resp) ==
    IF resp.body.feature_flags = Undefined THEN EmptyObject
    ELSE [k \in DOMAIN resp.body.feature_flags |->
            resp.body.feature_flags[k].value]

\* C4: when both flags answers are successes, carrying the maps E and O, the
\* request is answered 200 {orgId, environmentFlags: E, organizationFlags: O,
\* overrides: computeOverrides(E, O)}, never 502.
C4_SuccessIs200 ==
    \A r \in Requests :
        (pc[r] = "done" /\ Accepted(r)) =>
            \A i \in CallsOf(r, "environment", "flags") :
            \A j \in CallsOf(r, "organization", "flags") :
                (SuccessfulFlags(calls[r][i].resp)
                    /\ SuccessfulFlags(calls[r][j].resp)) =>
                LET E == YieldedMap(calls[r][i].resp)
                    O == YieldedMap(calls[r][j].resp)
                IN  /\ response[r].status = 200
                    /\ response[r].body =
                         [orgId             |-> Trim(request[r].text),
                          environmentFlags  |-> E,
                          organizationFlags |-> O,
                          overrides         |->
                            [k \in DOMAIN E |->
                                (k \notin DOMAIN O \/ E[k] # O[k])]]

---------------------------------------------------------------------------
(* C5 *)

\* one of the three required configuration values is missing or empty
SomeConfigMissing ==
    \E name \in DOMAIN env : env[name] \in {Undefined, Str("")}

\* C5 as stated: an accepted request made while a required configuration
\* value is missing or empty is answered with status 500.
C5_MissingConfigIs500 ==
    \A r \in Requests :
        (pc[r] = "done" /\ Accepted(r) /\ SomeConfigMissing) =>
            response[r].status = 500

\* C5, amended: an accepted request made while a required configuration value
\* is missing or empty is answered 502 with error "Environment flags: Missing
\* Kinde M2M environment variables"; both fetchers return that failure and no
\* upstream call is issued.
C5_MissingConfigIs502 ==
    \A r \in Requests :
        (Accepted(r) /\ SomeConfigMissing) =>
            /\ calls[r] = <<>>
            /\ \A s \in Scopes :
                returned[r][s] # "no" =>
                    /\ returned[r][s] = "failure"
                    /\ ResultOf(r, s) =
                         [error |-> Str("Missing Kinde M2M environment variables")]
            /\ pc[r] = "done" =>
                response[r] =
                    [status |-> 502,
                     body |-> [error |-> "Environment flags: Missing Kinde M2M environment variables"]]

C5_Witness ==
    /\ pc[1] = "done"
    /\ Accepted(1)
    /\ env.KINDE_ISSUER_URL = Str(IssuerUrl)
    /\ env.KINDE_M2M_CLIENT_ID = Str("client_id")
    /\ env.KINDE_M2M_CLIENT_SECRET = Undefined
    /\ response[1].status = 502

---------------------------------------------------------------------------
(* C6 *)

\* C6: whatever the request parameter, the configuration and the upstream
\* answers, the handler never stops short of a response, holds no response
\* before it is done, and ends with one response: 200 with the body {orgId,
\* environmentFlags, organizationFlags, overrides}, or 400, 500 or 502 with
\* the body {error}.
C6_OneWellFormedResponse ==
    /\ pc[1] # "done" => (response[1] = NoResponse /\ ENABLED Next)
    /\ pc[1] = "done" =>
        /\ ~ENABLED Next
        /\ response[1].status \in {200, 400, 500, 502}
        /\ response[1].status = 200 <=>
             DOMAIN response[1].body =
                {"orgId", "environmentFlags", "organizationFlags", "overrides"}
        /\ response[1].status # 200 <=> DOMAIN response[1].body = {"error"}

C6_Witness ==
    /\ pc[1] = "done"
    /\ response[1].status = 502
    /\ \E i \in CallsOf(1, "organization", "flags") :
        /\ calls[1][i].resp.kind = "resolved"
        /\ ~calls[1][i].resp.body.parses

---------------------------------------------------------------------------
(* C7 *)

\* what request r alone determines for a fetcher: the result that follows
\* from the answers to r's own calls
OwnResult(r, scope) ==
    LET tokens == CallsOf(r, scope, "token")
        flags  == CallsOf(r, scope, "flags")
    IN  IF tokens = {} THEN Failure(Str(MissingEnvMessage))
        ELSE LET token == getAuthToken(calls[r][CHOOSE i \in tokens : TRUE].resp)
             IN  IF token.threw THEN Failure(Str(token.message))
                 ELSE FlagsOutcome(calls[r][CHOOSE i \in flags : TRUE].resp).result

\* everything the handler holds for request r
Local(r) ==
    <<pc[r], request[r], orgId[r], fetching[r], environmentFlags[r],
      organizationFlags[r], calls[r], response[r], overridesCalls[r],
      returned[r]>>

\* each organization flags request of r goes to the path of r's own org id,
\* each result r holds follows from the answers to r's own calls, and r's
\* response follows from r's own org id and those results
OwnDataOnly ==
    \A r \in Requests :
        /\ \A i \in CallsOf(r, "organization", "flags") :
            calls[r][i].req.url.organization = Trim(request[r].text)
        /\ \A s \in Scopes :
            returned[r][s] # "no" => ResultOf(r, s) = OwnResult(r, s)
        /\ returned[r]["environment"] = "no" => environmentFlags[r] = Unset
        /\ returned[r]["organization"] = "no" => organizationFlags[r] = Unset
        /\ (pc[r] = "done" /\ Accepted(r)) =>
            response[r] = GETResponse(Trim(request[r].text),
                                      OwnResult(r, "environment"),
                                      OwnResult(r, "organization"))

\* a step of one request leaves what the handler holds for the others as it was
StepsAreLocal ==
    \A r \in Requests : pc'[r] = pc[r] => Local(r)' = Local(r)

\* C7: under any interleaving of requests, each request's organization fetch
\* targets the path of its own org id, its response depends only on its own
\* org id and the answers to its own calls, and no step taken for one request
\* changes anything held for another.
C7_RequestsIsolated == []OwnDataOnly /\ [][StepsAreLocal]_vars

C7_Witness ==
    /\ pc[1] = "done"
    /\ response[1].status = 200
    /\ response[1].body.orgId = <<"a">>
    /\ pc[2] = "flags"
    /\ fetching[2] = "organization"
    /\ returned[2]["environment"] = "failure"
    /\ calls[2][Len(calls[2])].req.url.organization = <<"a", "a">>

---------------------------------------------------------------------------
(* C8 *)

\* the fetcher of `scope` has returned and its flags call was answered `resp`
FlagsAnswered(r, scope, i) ==
    /\ i \in CallsOf(r, scope, "flags")
    /\ returned[r][scope] # "no"

\* what holds of every fetcher invocation whatever the `error` field of a
\* 2xx answer: it returns to the handler, a flat flag map or {error: message};
\* a throw of the token step, of the network call or of the body parse, and a
\* non-2xx answer, give a failure with the message the claim names
FetcherReturnsResult ==
    \A r \in Requests :
        /\ pc[r] \in {"auth", "token", "flags"} => ENABLED Next
        /\ \A s \in Scopes :
            /\ returned[r][s] \in {"no", "failure", "flags"}
            /\ returned[r][s] = "failure" =>
                (DOMAIN ResultOf(r, s) = {"error"}
                    /\ ResultOf(r, s)["error"].t = "string")
            /\ returned[r][s] = "flags" =>
                \A k \in DOMAIN ResultOf(r, s) :
                    ResultOf(r, s)[k].t \in {"string", "boolean", "number"}
            \* the token step threw
            /\ \A i \in CallsOf(r, s, "token") :
                (returned[r][s] # "no" /\ CallsOf(r, s, "flags") = {}) =>
                    /\ returned[r][s] = "failure"
                    /\ ResultOf(r, s) =
                         [error |-> Str(getAuthToken(calls[r][i].resp).message)]
            /\ (returned[r][s] # "no" /\ CallsOf(r, s, "token") = {}) =>
                ResultOf(r, s) = [error |-> Str(MissingEnvMessage)]
            /\ \A i \in DOMAIN calls[r] :
                FlagsAnswered(r, s, i) =>
                LET resp == calls[r][i].resp IN
                \* the network call threw
                /\ resp.kind = "rejected" =>
                     ResultOf(r, s) = [error |-> Str("fetch failed")]
                \* the body parse threw
                /\ (resp.kind = "resolved" /\ ~resp.body.parses) =>
                     ResultOf(r, s) = [error |-> Str(SyntaxErrorMessage)]
                \* non-2xx
                /\ (resp.kind = "resolved" /\ resp.body.parses /\ ~Ok(resp)) =>
                     ResultOf(r, s) =
                        [error |-> IF resp.body.error = Undefined
                                   THEN Str("HTTP " \o ToString(resp.status))
                                   ELSE resp.body.error]

\* the 2xx flags answers of a returned fetcher that carry an `error` field
\* among `errors`
ErrorFieldAnswers(r, s, errors) ==
    {i \in DOMAIN calls[r] :
        /\ FlagsAnswered(r, s, i)
        /\ calls[r][i].resp.kind = "resolved"
        /\ calls[r][i].resp.body.parses
        /\ Ok(calls[r][i].resp)
        /\ calls[r][i].resp.body.error \in errors}

\* C8 as stated: every fetcher invocation returns a flat flag map or a
\* failure {error: message} and never throws; it fails whenever the flags
\* answer is non-2xx or carries an `error` field (message: that field, else
\* the HTTP status) and whenever the token step, the network call or the body
\* parse throws (message: the exception's).
C8_AnyErrorFieldFails ==
    /\ FetcherReturnsResult
    /\ \A r \in Requests : \A s \in Scopes :
        \A i \in ErrorFieldAnswers(r, s, {Str(""), Str("flags_unavailable")}) :
            /\ returned[r][s] = "failure"
            /\ ResultOf(r, s) = [error |-> calls[r][i].resp.body.error]

\* C8, amended: every fetcher invocation returns a flat flag map or a failure
\* {error: message} and never throws. It fails when the flags answer is
\* non-2xx (message: the `error` field if it has one, else "HTTP <status>"),
\* when a 2xx answer carries a non-empty `error` field (message: that field),
\* and when the token step, the network call or the body parse throws
\* (message: the exception's). A 2xx answer whose `error` field is the empty
\* string is not a failure: its flag map is returned.
C8_FetcherNeverThrows ==
    /\ FetcherReturnsResult
    /\ \A r \in Requests : \A s \in Scopes :
        /\ \A i \in ErrorFieldAnswers(r, s, {Str("flags_unavailable")}) :
            /\ returned[r][s] = "failure"
            /\ ResultOf(r, s) = [error |-> calls[r][i].resp.body.error]
        /\ \A i \in ErrorFieldAnswers(r, s, {Str("")}) :
            LET resp == calls[r][i].resp IN
            SuccessfulFlags([resp EXCEPT !.body.error = Undefined]) =>
                /\ returned[r][s] = "flags"
                /\ ResultOf(r, s) = YieldedMap(resp)

C8_Witness ==
    /\ pc[1] = "done"
    /\ returned[1]["environment"] = "failure"
    /\ environmentFlags[1] = [error |-> Str("flags_unavailable")]
    /\ returned[1]["organization"] = "flags"
    /\ \E i \in CallsOf(1, "organization", "flags") :
        /\ Ok(calls[1][i].resp)
        /\ calls[1][i].resp.body.error = Str("")
        /\ calls[1][i].resp.body.feature_flags = ("dark_mode" :> KindeFlag(JsTrue))
    /\ organizationFlags[1] = ("dark_mode" :> JsTrue)

---------------------------------------------------------------------------
(* C9 *)

\* a token answer that gives a token: 2xx with a non-empty access_token
GivesToken(resp) ==
    /\ resp.kind = "resolved"
    /\ Ok(resp)
    /\ resp.body.parses
    /\ resp.body.access_token.t = "string"
    /\ resp.body.access_token.v # ""

\* the fetcher of `scope` failed at the token step with this message, and
\* sent no flags request
TokenStepFailed(r, scope, message) ==
    /\ CallsOf(r, scope, "flags") = {}
    /\ returned[r][scope] = "failure"
    /\ ResultOf(r, scope) = [error |-> Str(message)]

\* the flags GET comes only after a token; missing credentials and a 2xx
\* answer without access_token fail as the claim says
TokenBeforeFlags ==
    \A r \in Requests :
        /\ SomeConfigMissing => calls[r] = <<>>
        /\ \A i \in DOMAIN calls[r] :
            calls[r][i].step = "flags" =>
                /\ i > 1
                /\ calls[r][i - 1].step = "token"
                /\ calls[r][i - 1].scope = calls[r][i].scope
                /\ GivesToken(calls[r][i - 1].resp)
                /\ calls[r][i].req.method = "GET"
                /\ calls[r][i].req.authorization =
                     "Bearer " \o calls[r][i - 1].resp.body.access_token.v
        /\ \A s \in Scopes : \A i \in CallsOf(r, s, "token") :
            LET resp == calls[r][i].resp IN
            /\ calls[r][i].req.method = "POST"
            /\ (resp.kind = "resolved" /\ Ok(resp) /\ resp.body.parses
                    /\ resp.body.access_token \in {Undefined, Str("")}) =>
                 TokenStepFailed(r, s, "Kinde M2M: No access_token in response")
            /\ (resp.kind = "resolved" /\ ~Ok(resp) /\ resp.body.parses
                    /\ resp.body.error.t = "string") =>
                 TokenStepFailed(r, s, "Kinde M2M: " \o resp.body.error.v)

\* a non-2xx token answer has no upstream error message
NoUpstreamMessage(resp) ==
    /\ resp.kind = "resolved"
    /\ ~Ok(resp)
    /\ ~resp.body.parses \/ resp.body.error.t # "string"

\* the forms in which a message can carry the HTTP status
StatusMessages(status) ==
    {prefix \o ToString(status) :
        prefix \in {"", "HTTP ", "Kinde M2M: ", "Kinde M2M: HTTP "}}

\* C9 as stated: ... and a non-2xx token answer with no upstream error
\* message fails with an error carrying the HTTP status.
C9_TokenFailureCarriesStatus ==
    /\ TokenBeforeFlags
    /\ \A r \in Requests : \A s \in Scopes : \A i \in CallsOf(r, s, "token") :
        NoUpstreamMessage(calls[r][i].resp) =>
            /\ CallsOf(r, s, "flags") = {}
            /\ returned[r][s] = "failure"
            /\ ResultOf(r, s)["error"].v \in StatusMessages(calls[r][i].resp.status)

\* C9, amended: within a fetcher invocation the flags GET is issued only
\* after that invocation's token POST was answered 2xx with a non-empty
\* access_token, and carries that token. With a credential missing there is
\* no network call at all; a non-2xx token answer fails with "Kinde M2M: "
\* and the upstream error message if it is a string, else with
\* "Kinde M2M: Token request failed" (the HTTP status is not reported); a
\* 2xx answer without access_token fails with "Kinde M2M: No access_token in
\* response". In each failing case no flags GET is sent.
C9_TokenBeforeFlags ==
    /\ TokenBeforeFlags
    /\ \A r \in Requests : \A s \in Scopes : \A i \in CallsOf(r, s, "token") :
        NoUpstreamMessage(calls[r][i].resp) =>
            TokenStepFailed(r, s, "Kinde M2M: Token request failed")

C9_Witness ==
    /\ pc[1] = "flags"
    /\ fetching[1] = "organization"
    /\ TokenStepFailed(1, "environment", "Kinde M2M: Token request failed")
    /\ calls[1][1].resp.status = 401
    /\ Len(calls[1]) = 3
    /\ calls[1][3].req.authorization = "Bearer tok2"

---------------------------------------------------------------------------
(* C10 *)

\* C10: in an accepted request the environment fetcher runs to completion,
\* then the organization fetcher is started and runs to completion, also when
\* the environment fetcher failed, and only then is a response chosen. Each
\* fetcher issues at most one token POST and at most one flags GET, and a
\* flags GET carries the token its own fetcher's POST obtained.
C10_BothFetchersThenCheck ==
    \A r \in Requests :
        \* one attempt, no retry
        /\ \A s \in Scopes :
            /\ Cardinality(CallsOf(r, s, "token")) <= 1
            /\ Cardinality(CallsOf(r, s, "flags")) <= 1
        \* environment calls come first, and are over before the organization's
        /\ \A i, j \in DOMAIN calls[r] :
            (calls[r][i].scope = "environment"
                /\ calls[r][j].scope = "organization") => i < j
        /\ \A j \in DOMAIN calls[r] :
            calls[r][j].scope = "organization" =>
                returned[r]["environment"] # "no"
        /\ returned[r]["organization"] # "no" =>
            returned[r]["environment"] # "no"
        \* the organization fetcher runs whatever the environment's result
        /\ (pc[r] \in {"check", "done"} /\ Accepted(r)) =>
            /\ returned[r]["environment"] # "no"
            /\ returned[r]["organization"] # "no"
            /\ ~SomeConfigMissing => CallsOf(r, "organization", "token") # {}
        \* no response is chosen before both have returned
        /\ pc[r] \notin {"done"} => response[r] = NoResponse
        /\ (response[r] # NoResponse /\ Accepted(r)) =>
            \A s \in Scopes : returned[r][s] # "no"
        \* no call is left unanswered when the fetcher is over
        /\ \A i \in DOMAIN calls[r] :
            returned[r][calls[r][i].scope] # "no" =>
                calls[r][i].resp.kind # "pending"
        \* the token in a flags GET is the one its own fetcher obtained
        /\ \A s \in Scopes : \A j \in CallsOf(r, s, "flags") :
            \E i \in CallsOf(r, s, "token") :
                /\ i = j - 1
                /\ calls[r][j].req.authorization =
                     "Bearer " \o calls[r][i].resp.body.access_token.v

C10_Witness ==
    /\ pc[1] = "done"
    /\ returned[1]["environment"] = "failure"
    /\ returned[1]["organization"] = "flags"
    /\ Len(calls[1]) = 4
    /\ calls[1][1].resp.body.access_token = Str("tok1")
    /\ calls[1][2].req.authorization = "Bearer tok1"
    /\ calls[1][3].resp.body.access_token = Str("tok2")
    /\ calls[1][4].req.authorization = "Bearer tok2"
    /\ calls[1][4].scope = "organization"

====
